---- MODULE Spec2Model ----
(***************************************************************************)
(* Model of the callback adapter of service-plugin-esp32                   *)
(* (internal/handler/handler.go): the handlers registered with the host    *)
(* framework for DeviceDisconnect, Notification, GetDeviceList and         *)
(* GetDeviceInfo, the outbound HTTP requests they issue and the device     *)
(* cache the disconnect handler clears.                                    *)
(*                                                                         *)
(* One callback invocation is followed step by step; what the other       *)
(* in-flight callbacks do to the shared device cache is modelled by the    *)
(* cache writes SetDeviceStatus and OtherDisconnectClears, which may fall  *)
(* between any two steps.  Notification touches no shared state and is a   *)
(* single step.  DeviceDisconnect is one step per call into the platform   *)
(* client: lookup, clear, push, return.  GetDeviceList and GetDeviceInfo   *)
(* block in the HTTP client, so each is two steps of the handler (send,    *)
(* receive) with a step of the remote platform in between.                 *)
(***************************************************************************)
EXTENDS Integers, Sequences, FiniteSets, TLC

VARIABLES
    cache,      \* device cache of the platform client: device_number -> status
    pc,         \* "idle" | "lookedup" | "cleared" | "pushing" (DeviceDisconnect)
                \* | "waiting" (inside the HTTP call) | "responded" | "done"
    op,         \* the callback being served / last served
    req,        \* its request
    lookup,     \* DeviceDisconnect: the result of GetDeviceByID
    pushes,     \* DeviceDisconnect: the SendDeviceStatus calls made, in order
    snap,       \* DeviceDisconnect: the cache just before and just after its clear
    outbound,   \* HTTP requests handed to the network by this invocation
    resp,       \* what the HTTP client got back
    ret         \* what the handler returned: [err, env]

vars == <<cache, pc, op, req, lookup, pushes, snap, outbound, resp, ret>>

----------------------------------------------------------------------------
(* Bounds *)

MaxPage == 1        \* page ranges over 0..MaxPage
MaxList == 1        \* the remote list holds at most MaxList devices

----------------------------------------------------------------------------
(* Values *)

ABSENT == "<absent>"

SuccessCode == 200
\* the literal success message of both envelopes, transliterated
SuccessMessage == "huo qu cheng gong"
OfflineStatus == "0"

NoErr == [kind |-> "none", text |-> <<>>]
Err(kind, text) == [kind |-> kind, text |-> text]

DeviceNumbers == {"d1", "d2"}
\* "d1" is both a device id and a device number: the two namespaces overlap
DeviceIDs == {"d1", "id9"}
Statuses == {"0", "1"}

EmptyCache == [n \in DeviceNumbers |-> ABSENT]

----------------------------------------------------------------------------
(* JSON texts of vouchers.  A text is empty, not JSON, the literal null,   *)
(* an array, or an object whose members are absent, "" or a value.         *)

VoucherKeys == {"ServerURL", "Secret", "AgentId", "ThingsPanelApiKey"}

PresentVal(k) ==
    CASE k = "ServerURL" -> "http://remote"
      [] k = "Secret" -> "s3cret"
      [] k = "AgentId" -> "agent-7"
      [] OTHER -> "sk_key"

NoMembers == [k \in VoucherKeys |-> ABSENT]

VoucherObjects ==
    { [kind |-> "object", fields |-> f] :
        f \in { g \in [VoucherKeys -> {ABSENT, "", "http://remote", "s3cret", "agent-7", "sk_key"}] :
                  \A k \in VoucherKeys : g[k] \in {ABSENT, "", PresentVal(k)} } }

VoucherTexts ==
    { [kind |-> k, fields |-> NoMembers] : k \in {"empty", "garbage", "null", "array"} }
    \cup VoucherObjects

\* json.Unmarshal of a text into a struct with the string fields `keys`:
\* a syntax error or a non-object, non-null value is an error; null leaves
\* the struct zero; an object sets the members it has, the rest stay "".
JSONUnmarshalStruct(text, keys) ==
    IF text.kind \in {"empty", "garbage"}
    THEN [err |-> Err("decode", <<"invalid JSON">>), v |-> [k \in keys |-> ""]]
    ELSE IF text.kind = "array"
    THEN [err |-> Err("decode", <<"cannot unmarshal array">>), v |-> [k \in keys |-> ""]]
    ELSE [err |-> NoErr,
          v |-> [k \in keys |->
                   IF k \in DOMAIN text.fields /\ text.fields[k] # ABSENT
                   THEN text.fields[k] ELSE ""]]

\* formjson.Voucher, the struct handleGetDeviceList decodes into
ListVoucherFields == {"ServerURL", "Secret", "AuthType", "ThingsPanelApiKey", "ThingsPanelApiURL"}
\* the anonymous struct handleGetDeviceInfo decodes into
InfoVoucherFields == {"ServerURL", "Secret", "AgentId", "ThingsPanelApiKey"}

----------------------------------------------------------------------------
(* Notification messages, as the JSON texts the host sends *)

Messages == {"", "not-json", "null", "[]", "\"s\"", "1", "{}", "{\"k\":1}"}
MessageTypes == {"1", "2", "9", ""}

\* json.Unmarshal([]byte(message), &map[string]interface{}): an object
\* decodes, null decodes to a nil map, everything else is an error
JSONUnmarshalMap(text) ==
    IF text \in {"{}", "{\"k\":1}", "null"} THEN NoErr
    ELSE IF text \in {"", "not-json"} THEN Err("decode", <<"invalid JSON">>)
    ELSE Err("decode", <<"cannot unmarshal into map">>)

----------------------------------------------------------------------------
(* Requests *)

NoReq ==
    [device_id |-> "", message_type |-> "", message |-> "",
     voucher |-> [kind |-> "empty", fields |-> NoMembers],
     service_identifier |-> "", page |-> 0, page_size |-> 0, key |-> ""]

DisconnectRequests == { [NoReq EXCEPT !.device_id = d] : d \in DeviceIDs }

NotificationRequests ==
    { [NoReq EXCEPT !.message_type = t, !.message = m] :
        t \in MessageTypes, m \in Messages }

ListRequests ==
    { [NoReq EXCEPT !.voucher = v, !.service_identifier = s, !.page = p, !.page_size = 10] :
        v \in VoucherTexts, s \in {"", "svc"}, p \in 0..MaxPage }

InfoRequests ==
    { [NoReq EXCEPT !.voucher = v, !.key = c] :
        v \in VoucherTexts, c \in {"", "dev-1"} }

----------------------------------------------------------------------------
(* Responses of the remote platform *)

RemoteItems ==
    { [device_name |-> "lamp", device_number |-> "d1", description |-> "a lamp"],
      [device_name |-> "fan", device_number |-> "d2", description |-> ""] }

RECURSIVE SeqsUpTo(_, _)
SeqsUpTo(S, n) ==
    IF n = 0 THEN { <<>> }
    ELSE LET shorter == SeqsUpTo(S, n - 1)
         IN shorter \cup { Append(s, x) : s \in { t \in shorter : Len(t) = n - 1 }, x \in S }

NoData == [device_name |-> "", device_number |-> "", device_description |-> ""]

NoBody == [kind |-> "garbage", code |-> 0, msg |-> "", total |-> 0, list |-> <<>>, data |-> NoData]

ListBodies ==
    { [NoBody EXCEPT !.kind = k] : k \in {"garbage", "null"} }
    \cup { [NoBody EXCEPT !.kind = "object", !.code = c, !.msg = m, !.total = Len(l), !.list = l] :
             c \in {0, 5}, m \in {"", "not found"}, l \in SeqsUpTo(RemoteItems, MaxList) }

BindBodies ==
    { [NoBody EXCEPT !.kind = k] : k \in {"garbage", "null"} }
    \cup { [NoBody EXCEPT !.kind = "object", !.code = c, !.msg = m, !.data = d] :
             c \in {0, 5}, m \in {"", "not found"},
             d \in { NoData,
                     [device_name |-> "lamp", device_number |-> "d1", device_description |-> "a lamp"] } }

HTTPStatuses == {200, 500}

NoResp == [kind |-> "none", status |-> 0, body |-> NoBody]

Responses(bodies) ==
    { [NoResp EXCEPT !.kind = "transport"] }
    \cup { [NoResp EXCEPT !.kind = "bodyerr", !.status = s] : s \in HTTPStatuses }
    \cup { [kind |-> "http", status |-> s, body |-> b] : s \in HTTPStatuses, b \in bodies }

\* json.Unmarshal of the response body into the handler's responseData:
\* null leaves it zero (code 0, no data)
JSONUnmarshalResponse(body) ==
    IF body.kind = "garbage"
    THEN [err |-> Err("decode", <<"invalid JSON">>), v |-> NoBody]
    ELSE IF body.kind = "null"
    THEN [err |-> NoErr, v |-> NoBody]
    ELSE [err |-> NoErr, v |-> body]

----------------------------------------------------------------------------
(* Envelopes returned to the host *)

NoItem == [device_name |-> "", device_number |-> "", description |-> ""]

NoEnvelope ==
    [present |-> FALSE, code |-> 0, message |-> "", total |-> 0, list |-> <<>>, item |-> NoItem]

Return(err) == [err |-> err, env |-> NoEnvelope]
NoRet == Return(NoErr)

----------------------------------------------------------------------------
(* Platform client (internal/platform): device lookup, cache, status push *)

LookupResults ==
    { [err |-> Err("lookup", <<"device not found">>), device_number |-> ""] }
    \cup { [err |-> NoErr, device_number |-> n] : n \in DeviceNumbers }

PushOutcomes == { NoErr, Err("push", <<"publish failed">>) }

ClearDeviceCache(c, deviceNumber) ==
    [n \in DOMAIN c |-> IF n = deviceNumber THEN ABSENT ELSE c[n]]

SetDeviceStatus(dn, st) ==
    /\ cache[dn] # st
    /\ cache' = [cache EXCEPT ![dn] = st]
    /\ UNCHANGED <<pc, op, req, lookup, pushes, snap, outbound, resp, ret>>

NoLookup == [err |-> NoErr, device_number |-> ""]
NoSnap == [taken |-> FALSE, before |-> EmptyCache, after |-> EmptyCache]

\* another in-flight DeviceDisconnect clears an entry of the shared cache
OtherDisconnectClears(dn) ==
    /\ cache[dn] # ABSENT
    /\ cache' = ClearDeviceCache(cache, dn)
    /\ UNCHANGED <<pc, op, req, lookup, pushes, snap, outbound, resp, ret>>

PushPending == Err("pending", <<>>)

----------------------------------------------------------------------------
(* handleDeviceDisconnect *)

DisconnectCacheKey_M(deviceID, found) == deviceID

\* the key the cache is cleared by: device.DeviceNumber
DisconnectCacheKey(deviceID, found) == found.device_number

DisconnectResult_M(lookupErr, pushErr) ==
    IF lookupErr # NoErr THEN lookupErr ELSE pushErr

\* err is reassigned by SendDeviceStatus: only the push decides the result
DisconnectResult(lookupErr, pushErr) == pushErr

\* device, err := h.platform.GetDeviceByID(req.DeviceID)
handleDeviceDisconnectLookup ==
    /\ pc = "idle"
    /\ \E r \in DisconnectRequests, found \in LookupResults :
         /\ op' = "DeviceDisconnect"
         /\ req' = r
         /\ lookup' = found
    /\ pushes' = <<>>
    /\ snap' = NoSnap
    /\ ret' = NoRet
    /\ outbound' = <<>>
    /\ resp' = NoResp
    /\ pc' = "lookedup"
    /\ UNCHANGED cache

\* if err == nil { h.platform.ClearDeviceCache(device.DeviceNumber) }
handleDeviceDisconnectClear ==
    /\ pc = "lookedup"
    /\ op = "DeviceDisconnect"
    /\ lookup.err = NoErr
    /\ cache' = ClearDeviceCache(cache, DisconnectCacheKey(req.device_id, lookup))
    /\ snap' = [taken |-> TRUE, before |-> cache, after |-> cache']
    /\ pc' = "cleared"
    /\ UNCHANGED <<op, req, lookup, pushes, outbound, resp, ret>>

\* err = h.platform.SendDeviceStatus(req.DeviceID, "0"): the call is made
handleDeviceDisconnectPush ==
    /\ op = "DeviceDisconnect"
    /\ \/ pc = "cleared"
       \/ pc = "lookedup" /\ lookup.err # NoErr
    /\ pushes' = Append(pushes, [device_id |-> req.device_id,
                                 status |-> OfflineStatus,
                                 err |-> PushPending])
    /\ pc' = "pushing"
    /\ UNCHANGED <<cache, op, req, lookup, snap, outbound, resp, ret>>

\* SendDeviceStatus returns; the handler returns its error
handleDeviceDisconnectReturn ==
    /\ pc = "pushing"
    /\ op = "DeviceDisconnect"
    /\ \E pushErr \in PushOutcomes :
         /\ pushes' = [pushes EXCEPT ![Len(pushes)].err = pushErr]
         /\ ret' = Return(DisconnectResult(lookup.err, pushErr))
    /\ pc' = "done"
    /\ UNCHANGED <<cache, op, req, lookup, snap, outbound, resp>>

----------------------------------------------------------------------------
(* handleNotification *)

NotificationTypeResult_M(messageType) ==
    IF messageType \in {"1", "2"} THEN NoErr
    ELSE Err("unsupported", <<"unknown message type">>)

\* the switch on MessageType: every branch only logs
NotificationTypeResult(messageType) ==
    CASE messageType = "1" -> NoErr
      [] messageType = "2" -> NoErr
      [] OTHER -> NoErr

handleNotification ==
    /\ pc = "idle"
    /\ \E r \in NotificationRequests :
         LET decodeErr == JSONUnmarshalMap(r.message)
         IN /\ op' = "Notification"
            /\ req' = r
            /\ ret' = IF decodeErr # NoErr THEN Return(decodeErr)
                      ELSE Return(NotificationTypeResult(r.message_type))
            /\ lookup' = NoLookup
            /\ pushes' = <<>>
            /\ snap' = NoSnap
            /\ outbound' = <<>>
            /\ resp' = NoResp
            /\ pc' = "done"
            /\ UNCHANGED cache

----------------------------------------------------------------------------
(* The HTTP client *)

\* net/http refuses a URL without scheme before anything is sent
URLSupported(base) == base # ""

ErrUnsupportedScheme == Err("transport", <<"unsupported protocol scheme">>)

----------------------------------------------------------------------------
(* handleGetDeviceList *)

ListRequestBody_M(r) ==
    [voucher |-> r.voucher,
     service_identifier |-> r.service_identifier,
     page |-> r.page,
     pageSize |-> r.page_size]

\* requestData: the four parameters of the inbound request
ListRequestBody(r) ==
    [voucher |-> r.voucher,
     service_identifier |-> r.service_identifier,
     page |-> r.page,
     page_size |-> r.page_size]

ListHTTPRequest(r, voucher) ==
    [method |-> "POST",
     base |-> voucher["ServerURL"],
     path |-> "/device/list",
     content_type |-> "application/json",
     x_token |-> voucher["Secret"],
     body |-> ListRequestBody(r)]

ListItem(d) ==
    [device_name |-> d.device_name,
     device_number |-> d.device_number,
     description |-> d.description]

\* everything after client.Do returned
ListResult(r) ==
    IF r.kind = "transport" THEN Return(Err("transport", <<"connection failed">>))
    ELSE IF r.kind = "bodyerr" THEN Return(Err("transport", <<"read body failed">>))
    ELSE LET d == JSONUnmarshalResponse(r.body)
         IN IF d.err # NoErr THEN Return(d.err)
            ELSE [err |-> NoErr,
                  env |-> [present |-> TRUE,
                           code |-> SuccessCode,
                           message |-> SuccessMessage,
                           total |-> d.v.total,
                           list |-> [i \in 1..Len(d.v.list) |-> ListItem(d.v.list[i])],
                           item |-> NoItem]]

handleGetDeviceListSend ==
    /\ pc = "idle"
    /\ \E r \in ListRequests :
         LET d == JSONUnmarshalStruct(r.voucher, ListVoucherFields)
             httpReq == ListHTTPRequest(r, d.v)
         IN /\ op' = "GetDeviceList"
            /\ req' = r
            /\ lookup' = NoLookup
            /\ pushes' = <<>>
            /\ snap' = NoSnap
            /\ resp' = NoResp
            /\ UNCHANGED cache
            /\ IF d.err # NoErr
               THEN /\ ret' = Return(d.err)
                    /\ outbound' = <<>>
                    /\ pc' = "done"
               ELSE IF ~URLSupported(httpReq.base)
               THEN /\ ret' = Return(ErrUnsupportedScheme)
                    /\ outbound' = <<>>
                    /\ pc' = "done"
               ELSE /\ ret' = NoRet
                    /\ outbound' = <<httpReq>>
                    /\ pc' = "waiting"

handleGetDeviceListRecv ==
    /\ pc = "responded"
    /\ op = "GetDeviceList"
    /\ ret' = ListResult(resp)
    /\ pc' = "done"
    /\ UNCHANGED <<cache, op, req, lookup, pushes, snap, outbound, resp>>

----------------------------------------------------------------------------
(* handleGetDeviceInfo *)

VoucherIncomplete_M(voucher) ==
    \/ voucher["ServerURL"] = ""
    \/ voucher["Secret"] = ""
    \/ voucher["ThingsPanelApiKey"] = ""

\* the check of the voucher's required fields
VoucherIncomplete(voucher) ==
    \/ voucher["ServerURL"] = ""
    \/ voucher["Secret"] = ""
    \/ voucher["AgentId"] = ""
    \/ voucher["ThingsPanelApiKey"] = ""

InfoRequestBody(r, voucher) ==
    [secret |-> voucher["Secret"],
     agent_id |-> voucher["AgentId"],
     external_api_key |-> voucher["ThingsPanelApiKey"],
     device_code |-> r.key]

InfoHTTPRequest(r, voucher) ==
    [method |-> "POST",
     base |-> voucher["ServerURL"],
     path |-> "/device/bind",
     content_type |-> "application/json",
     x_token |-> ABSENT,
     body |-> InfoRequestBody(r, voucher)]

RemoteCodeIsError_M(code) == FALSE

\* the check of the response code
RemoteCodeIsError(code) == code # 0

\* everything after http.Post returned
InfoResult(r) ==
    IF r.kind = "transport" THEN Return(Err("transport", <<"connection failed">>))
    ELSE IF r.kind = "bodyerr" THEN Return(Err("transport", <<"read body failed">>))
    ELSE LET d == JSONUnmarshalResponse(r.body)
         IN IF d.err # NoErr THEN Return(d.err)
            ELSE IF RemoteCodeIsError(d.v.code)
            THEN Return(Err("remote", <<"third-party API error: ", d.v.msg>>))
            ELSE [err |-> NoErr,
                  env |-> [present |-> TRUE,
                           code |-> SuccessCode,
                           message |-> SuccessMessage,
                           total |-> 0,
                           list |-> <<>>,
                           item |-> [device_name |-> d.v.data.device_name,
                                     device_number |-> d.v.data.device_number,
                                     description |-> d.v.data.device_description]]]

handleGetDeviceInfoSend ==
    /\ pc = "idle"
    /\ \E r \in InfoRequests :
         LET d == JSONUnmarshalStruct(r.voucher, InfoVoucherFields)
             httpReq == InfoHTTPRequest(r, d.v)
         IN /\ op' = "GetDeviceInfo"
            /\ req' = r
            /\ lookup' = NoLookup
            /\ pushes' = <<>>
            /\ snap' = NoSnap
            /\ resp' = NoResp
            /\ UNCHANGED cache
            /\ IF r.key = ""
               THEN /\ ret' = Return(Err("validation", <<"device code must not be empty">>))
                    /\ outbound' = <<>>
                    /\ pc' = "done"
               ELSE IF r.voucher.kind = "empty"
               THEN /\ ret' = Return(Err("validation", <<"voucher must not be empty">>))
                    /\ outbound' = <<>>
                    /\ pc' = "done"
               ELSE IF d.err # NoErr
               THEN /\ ret' = Return(d.err)
                    /\ outbound' = <<>>
                    /\ pc' = "done"
               ELSE IF VoucherIncomplete(d.v)
               THEN /\ ret' = Return(Err("validation", <<"voucher lacks a required field">>))
                    /\ outbound' = <<>>
                    /\ pc' = "done"
               ELSE IF ~URLSupported(httpReq.base)
               THEN /\ ret' = Return(ErrUnsupportedScheme)
                    /\ outbound' = <<>>
                    /\ pc' = "done"
               ELSE /\ ret' = NoRet
                    /\ outbound' = <<httpReq>>
                    /\ pc' = "waiting"

handleGetDeviceInfoRecv ==
    /\ pc = "responded"
    /\ op = "GetDeviceInfo"
    /\ ret' = InfoResult(resp)
    /\ pc' = "done"
    /\ UNCHANGED <<cache, op, req, lookup, pushes, snap, outbound, resp>>

----------------------------------------------------------------------------
(* The remote platform *)

RemoteResponds ==
    /\ pc = "waiting"
    /\ \E r \in Responses(IF op = "GetDeviceList" THEN ListBodies ELSE BindBodies) :
         resp' = r
    /\ pc' = "responded"
    /\ UNCHANGED <<cache, op, req, lookup, pushes, snap, outbound, ret>>

\* The host framework takes the result of the callback; the next callback
\* starts from a fresh request.  Only the cache outlives an invocation.
HostTakesResult ==
    /\ pc = "done"
    /\ pc' = "idle"
    /\ op' = "none"
    /\ req' = NoReq
    /\ lookup' = NoLookup
    /\ pushes' = <<>>
    /\ snap' = NoSnap
    /\ outbound' = <<>>
    /\ resp' = NoResp
    /\ ret' = NoRet
    /\ UNCHANGED cache

Next ==
    \/ \E dn \in DeviceNumbers, st \in Statuses : SetDeviceStatus(dn, st)
    \/ \E dn \in DeviceNumbers : OtherDisconnectClears(dn)
    \/ handleDeviceDisconnectLookup
    \/ handleDeviceDisconnectClear
    \/ handleDeviceDisconnectPush
    \/ handleDeviceDisconnectReturn
    \/ handleNotification
    \/ handleGetDeviceListSend
    \/ handleGetDeviceListRecv
    \/ handleGetDeviceInfoSend
    \/ handleGetDeviceInfoRecv
    \/ RemoteResponds
    \/ HostTakesResult

Init ==
    /\ cache = EmptyCache
    /\ pc = "idle"
    /\ op = "none"
    /\ req = NoReq
    /\ lookup = NoLookup
    /\ pushes = <<>>
    /\ snap = NoSnap
    /\ outbound = <<>>
    /\ resp = NoResp
    /\ ret = NoRet

Spec == Init /\ [][Next]_vars

\* The handler's own steps always get to run; nothing obliges the remote
\* platform to answer.
LiveSpec ==
    /\ Spec
    /\ WF_vars(handleGetDeviceListRecv)
    /\ WF_vars(handleGetDeviceInfoRecv)

----------------------------------------------------------------------------
(* Properties *)

Returned(o) == op = o /\ pc = "done"

\* a member of the voucher text that is absent or the empty string
RawMissing(k) == req.voucher.fields[k] \in {ABSENT, ""}

\* the voucher text is one that encoding/json decodes into a struct
VoucherDecodes == req.voucher.kind \in {"object", "null"}

InfoRequestInvalid ==
    \/ req.key = ""
    \/ req.voucher.kind = "empty"
    \/ VoucherDecodes /\ \E k \in InfoVoucherFields : RawMissing(k)

\* C1: GetDeviceInfo returns a validation error and issues no HTTP request
\* when device_code is empty, the voucher is empty, or the voucher decodes
\* with ServerURL, Secret, AgentId or ThingsPanelApiKey empty; a POST to
\* /device/bind is issued only when all six values are non-empty.
C1_InfoValidatesBeforeCall ==
    op = "GetDeviceInfo" =>
        /\ InfoRequestInvalid =>
              /\ pc = "done"
              /\ ret.err.kind = "validation"
              /\ ~ret.env.present
              /\ outbound = <<>>
        /\ outbound # <<>> =>
              /\ req.key # ""
              /\ req.voucher.kind # "empty"
              /\ \A k \in InfoVoucherFields : ~RawMissing(k)
              /\ Len(outbound) = 1
              /\ outbound[1].path = "/device/bind"

C1_Witness ==
    /\ Returned("GetDeviceInfo")
    /\ req.key # ""
    /\ req.voucher.kind = "object"
    /\ req.voucher.fields["AgentId"] = ABSENT
    /\ \A k \in InfoVoucherFields \ {"AgentId"} : ~RawMissing(k)
    /\ ret.err.kind = "validation"
    /\ outbound = <<>>

\* C2: every DeviceDisconnect pushes the offline status for device_id
\* exactly once, whether or not the lookup succeeded, and returns exactly
\* the push's outcome: the push's error if it failed, no error otherwise.
C2_DisconnectPushesOnce ==
    /\ Len(pushes) <= 1
    /\ Returned("DeviceDisconnect") =>
          /\ Len(pushes) = 1
          /\ pushes[1].device_id = req.device_id
          /\ pushes[1].status = "0"
          /\ pushes[1].err \in PushOutcomes
          /\ ret.err = pushes[1].err

C2_Witness ==
    /\ Returned("DeviceDisconnect")
    /\ lookup.err # NoErr
    /\ Len(pushes) = 1
    /\ pushes[1].err = NoErr
    /\ ret.err = NoErr

\* C3: GetDeviceList returns an error, and no envelope, for every upstream
\* failure: a transport failure, an undecodable body, and a decoded body
\* with a non-zero code.
C3_ListSurfacesRemoteFailure ==
    Returned("GetDeviceList") /\ resp.kind # "none" =>
        LET failed == \/ resp.kind \in {"transport", "bodyerr"}
                      \/ resp.body.kind = "garbage"
                      \/ resp.body.kind = "object" /\ resp.body.code # 0
        IN failed => ret.err # NoErr /\ ~ret.env.present

\* C4: when the /device/bind response decodes with a non-zero code,
\* GetDeviceInfo returns an error whose text contains the remote msg and no
\* envelope; an envelope is returned, with code 200, only when the remote
\* code is zero.
C4_InfoSurfacesRemoteCode ==
    Returned("GetDeviceInfo") =>
        /\ (resp.kind = "http" /\ resp.body.kind = "object" /\ resp.body.code # 0) =>
              /\ ret.err.kind = "remote"
              /\ \E i \in 1..Len(ret.err.text) : ret.err.text[i] = resp.body.msg
              /\ ~ret.env.present
        /\ ret.env.present =>
              /\ ret.err = NoErr
              /\ ret.env.code = 200
              /\ resp.kind = "http"
              /\ resp.body.kind \in {"object", "null"}
              /\ resp.body.code = 0

C4_Witness ==
    /\ Returned("GetDeviceInfo")
    /\ resp.kind = "http"
    /\ resp.body.kind = "object"
    /\ resp.body.code = 5
    /\ resp.body.msg = "not found"
    /\ ret.err.kind = "remote"
    /\ ~ret.env.present

\* a step of the DeviceDisconnect handler, as opposed to a cache write of
\* another callback
DisconnectHandlerStep == op' = "DeviceDisconnect" /\ pc' # pc

\* C5: the effect of DeviceDisconnect on the device cache.  The one step of
\* the handler that changes the cache is its clear, taken only when the
\* lookup resolved an identity and before any push: it clears exactly the
\* entry keyed by that identity's device_number (not the one keyed by
\* device_id) and changes no other entry.  No other step of the handler
\* changes the cache: not after a failed lookup, not around the push, and
\* not when the push fails.
C5_DisconnectClearsByNumber ==
    [][ DisconnectHandlerStep =>
          IF pc = "lookedup" /\ lookup.err = NoErr
          THEN /\ pushes = <<>>
               /\ pc' = "cleared"
               /\ \A n \in DeviceNumbers :
                     cache'[n] = IF n = lookup.device_number THEN ABSENT
                                 ELSE cache[n]
          ELSE cache' = cache ]_vars

C5_Witness ==
    /\ Returned("DeviceDisconnect")
    /\ req.device_id = "d1"
    /\ lookup.err = NoErr
    /\ lookup.device_number = "d2"
    /\ snap.taken
    /\ snap.before["d1"] # ABSENT
    /\ snap.before["d2"] # ABSENT
    /\ snap.after["d2"] = ABSENT
    /\ snap.after["d1"] = snap.before["d1"]
    /\ pushes[1].err \notin {NoErr, PushPending}
    /\ cache["d2"] # ABSENT

ListRequestsSent ==
    { i \in 1..Len(outbound) : outbound[i].path = "/device/list" }

\* C6 as stated: the body sent to /device/list consists of exactly
\* service_identifier, page and page_size with their inbound values; the raw
\* credential is not part of it.
C6_BodyIsFilterFieldsOnly ==
    \A i \in ListRequestsSent :
        /\ DOMAIN outbound[i].body = {"service_identifier", "page", "page_size"}
        /\ outbound[i].body.service_identifier = req.service_identifier
        /\ outbound[i].body.page = req.page
        /\ outbound[i].body.page_size = req.page_size

\* C6 amended: the body sent to /device/list consists of exactly the four
\* parameters of the inbound request, voucher, service_identifier, page and
\* page_size, each with its inbound value.
C6_BodyIsInboundParameters ==
    \A i \in ListRequestsSent :
        /\ DOMAIN outbound[i].body = {"voucher", "service_identifier", "page", "page_size"}
        /\ outbound[i].body.voucher = req.voucher
        /\ outbound[i].body.service_identifier = req.service_identifier
        /\ outbound[i].body.page = req.page
        /\ outbound[i].body.page_size = req.page_size

C6_Witness ==
    /\ op = "GetDeviceList"
    /\ ListRequestsSent # {}
    /\ req.service_identifier = "svc"
    /\ req.page = MaxPage
    /\ outbound[1].body.page = MaxPage
    /\ outbound[1].body.service_identifier = "svc"

\* the credential the handler decoded from the request's voucher
Credential ==
    JSONUnmarshalStruct(req.voucher,
                        IF op = "GetDeviceList" THEN ListVoucherFields
                        ELSE InfoVoucherFields).v

\* C7: whenever GetDeviceList or GetDeviceInfo issues an HTTP request, the
\* decoded credential's ServerURL and Secret are non-empty.
C7_CredentialCheckedBeforeCall ==
    outbound # <<>> =>
        /\ Credential["ServerURL"] # ""
        /\ Credential["Secret"] # ""

\* C8: Notification returns an error exactly when decoding the message
\* fails, and then it is the decode error; the message type never makes it
\* fail.
C8_NotificationFailsOnlyOnDecode ==
    Returned("Notification") =>
        /\ (ret.err # NoErr) <=> (JSONUnmarshalMap(req.message) # NoErr)
        /\ ret.err = JSONUnmarshalMap(req.message)
        /\ \A t \in MessageTypes :
              req.message_type = t /\ req.message \in {"{}", "{\"k\":1}"} => ret.err = NoErr
        /\ req.message \in {"", "not-json", "[]", "1", "\"s\""} => ret.err.kind = "decode"

C8_Witness ==
    /\ Returned("Notification")
    /\ req.message_type = "9"
    /\ req.message = "{}"
    /\ ret.err = NoErr

\* C9: GetDeviceList and GetDeviceInfo return an error, and no envelope,
\* for every response whose status is not 2xx, whatever its body.
C9_Non2xxIsFailure ==
    (pc = "done" /\ op \in {"GetDeviceList", "GetDeviceInfo"}
        /\ resp.kind = "http" /\ resp.status \notin 200..299) =>
        ret.err # NoErr /\ ~ret.env.present

\* C10: every GetDeviceList and GetDeviceInfo invocation that is waiting
\* for the remote platform eventually returns, even if the remote platform
\* never responds.
C10_CallEventuallyReturns == (pc = "waiting") ~> (pc = "done")

====
